---- MODULE Spec2Model ----
(***************************************************************************)
(* A model of src/util/profile/prof_tree.c: the parse tree of a profile    *)
(* (sections and relations kept in doubly linked, name-ordered sibling     *)
(* lists), the two single-section scanners and the node iterator that      *)
(* merges the matching entries of a list of profile files.                 *)
(***************************************************************************)
EXTENDS Integers, Sequences, FiniteSets, TLC

\* ------------------------------------------------------------------ bounds
\* Number of struct profile_node cells the allocator can hand out.
MaxNodes == 4
\* Names are 1..MaxName; strcmp orders them as the integers.
MaxName == 2

\* ------------------------------------------------------------- vocabulary
NULL == 0
\* The cells of the tree operations' heap.
NodeIds == 1..MaxNodes
Names == 1..MaxName
\* A value is a pointer to a string: only its presence is ever tested.
Values == {NULL, 1}

VARIABLES
    heap,       \* NodeIds -> struct profile_node (magic FALSE: freed memory)
    root,       \* the root section the tree operations start from
    nalloc,     \* number of cells malloc has handed out
    call,       \* ghost: the last operation called (its arguments are
                \* recorded when it returned success)
    ret,        \* the errcode_t the last operation returned
    \* the caller of a single-section scanner
    scan,       \* ghost: the name filter and the scanner of the running scan
    state,      \* the caller's cursor (void *state)
    seen,       \* ghost: what the calls returned since the scan began
    dirty,      \* ghost: the section was modified since the scan began
    since,      \* ghost: the nodes created since the node of the cursor was
                \* destroyed
    \* the node iterator and the profile it walks
    files,      \* the profile's files in order: root and upd_serial of each
    iter_p,     \* the caller's iterator handle (*iter_p): NULL or the iterator
    iter,       \* struct profile_iterator
    pc,         \* where profile_node_iterator stands ("idle": not running)
    skip_num,   \* its local skip_num
    ret_node,   \* *ret_node of the last call
    out,        \* ghost: the nodes yielded so far
    resolved,   \* ghost: the files in which the path was resolved
    failed,     \* ghost: profile_update_file has failed
    created,    \* ghost: the names and flags the iterator was created with
    freed       \* ghost: the caller has freed the iterator

treeVars == <<heap, root, nalloc>>
scanVars == <<scan, state, seen, dirty, since>>
iterVars == <<files, iter_p, iter, pc, skip_num, ret_node, out, resolved,
              failed, created, freed>>
vars == <<heap, root, nalloc, call, ret, scan, state, seen, dirty, since, files,
          iter_p, iter, pc, skip_num, ret_node, out, resolved, failed, created,
          freed>>

\* struct profile_node after memset(new, 0, sizeof ...); also what the model
\* keeps of a freed cell.
Blank ==
    [magic |-> FALSE, name |-> NULL, value |-> NULL, group_level |-> 0,
     final |-> FALSE, first_child |-> NULL, parent |-> NULL,
     next |-> NULL, prev |-> NULL]

\* strcmp on names: negative, zero or positive.
strcmp(a, b) == a - b

\* The sibling list that starts at p, following next.
RECURSIVE ListFrom(_, _)
ListFrom(h, p) == IF p = NULL THEN <<>> ELSE <<p>> \o ListFrom(h, h[p].next)

Children(h, section) == ListFrom(h, h[section].first_child)

\* ------------------------------------------------------- profile_free_node
RECURSIVE profile_free_node(_, _)
RECURSIVE FreeChildren(_, _)
FreeChildren(h, child) ==
    IF child = NULL THEN h
    ELSE LET next == h[child].next
         IN  FreeChildren(profile_free_node(h, child), next)

profile_free_node(h, node) ==
    IF ~h[node].magic THEN h
    ELSE [FreeChildren(h, h[node].first_child) EXCEPT ![node] = Blank]

\* ----------------------------------------------------- profile_create_node
\* malloc: the next cell never handed out before, NULL when none is left.  A
\* freed cell is not handed out again, so a pointer to it stays recognisably
\* dangling; n is the number of cells handed out so far.
malloc(h, n) == IF n + 1 \in DOMAIN h THEN n + 1 ELSE NULL

profile_create_node(h, n, name, value) ==
    LET new == malloc(h, n)
    IN  IF new = NULL
        THEN [retval |-> "ENOMEM", heap |-> h, node |-> NULL]
        ELSE [retval |-> "OK",
              heap |-> [h EXCEPT ![new] =
                           [Blank EXCEPT !.magic = TRUE, !.name = name,
                                         !.value = value]],
              node |-> new]

\* ----------------------------------------------------- profile_verify_node
RECURSIVE profile_verify_node(_, _)
RECURSIVE VerifyChildren(_, _, _, _)
VerifyChildren(h, node, p, last) ==
    IF p = NULL THEN "OK"
    ELSE IF h[p].prev # last THEN "PROF_BAD_LINK_LIST"
    ELSE IF last # NULL /\ h[last].next # p THEN "PROF_BAD_LINK_LIST"
    ELSE IF h[node].group_level + 1 # h[p].group_level THEN "PROF_BAD_GROUP_LVL"
    ELSE IF h[p].parent # node THEN "PROF_BAD_PARENT_PTR"
    ELSE LET retval == profile_verify_node(h, p)
         IN  IF retval # "OK" THEN retval
             ELSE VerifyChildren(h, node, h[p].next, p)

profile_verify_node(h, node) ==
    IF ~h[node].magic THEN "PROF_MAGIC_NODE"
    ELSE IF h[node].value # NULL /\ h[node].first_child # NULL
         THEN "PROF_SECTION_WITH_VALUE"
    ELSE VerifyChildren(h, node, h[node].first_child, NULL)

\* -------------------------------------------------------- profile_add_node
\* A faulty search: the loop stops at the first child whose name is not less than name.
RECURSIVE FindInsert_BeforeEqual(_, _, _, _)
FindInsert_BeforeEqual(h, p, last, name) ==
    IF p = NULL THEN <<NULL, last>>
    ELSE IF strcmp(h[p].name, name) >= 0 THEN <<p, last>>
    ELSE FindInsert_BeforeEqual(h, h[p].next, p, name)

\* A faulty search: the new node goes before all the children.
FindInsert_AtHead(h, p, last, name) == <<p, last>>

\* The loop of lines 158-162: <<p, last>> when it ends.
RECURSIVE FindInsert(_, _, _, _)
FindInsert(h, p, last, name) ==
    IF p = NULL THEN <<NULL, last>>
    ELSE IF strcmp(h[p].name, name) > 0 THEN <<p, last>>
    ELSE FindInsert(h, h[p].next, p, name)

\* A faulty linking: the node after the new one keeps its old prev.
LinkNode_NoBackLink(h, section, new, p, last) ==
    LET h1 == [h EXCEPT ![new].group_level = h[section].group_level + 1,
                        ![new].parent = section,
                        ![new].prev = last,
                        ![new].next = p]
    IN  IF last # NULL THEN [h1 EXCEPT ![last].next = new]
        ELSE [h1 EXCEPT ![section].first_child = new]

\* Lines 166-175: link the created node between last and p.
LinkNode(h, section, new, p, last) ==
    LET h1 == [h EXCEPT ![new].group_level = h[section].group_level + 1,
                        ![new].parent = section,
                        ![new].prev = last,
                        ![new].next = p]
        h2 == IF p # NULL THEN [h1 EXCEPT ![p].prev = new] ELSE h1
    IN  IF last # NULL THEN [h2 EXCEPT ![last].next = new]
        ELSE [h2 EXCEPT ![section].first_child = new]

\* A faulty add: the value of section is not looked at.
profile_add_node_AnySection(h, n, section, name, value) ==
    IF ~h[section].magic
    THEN [retval |-> "PROF_MAGIC_NODE", heap |-> h, node |-> NULL]
    ELSE LET pl == FindInsert(h, h[section].first_child, NULL, name)
             cr == profile_create_node(h, n, name, value)
         IN  IF cr.retval # "OK"
             THEN [retval |-> cr.retval, heap |-> h, node |-> NULL]
             ELSE [retval |-> "OK",
                   heap |-> LinkNode(cr.heap, section, cr.node, pl[1], pl[2]),
                   node |-> cr.node]

profile_add_node(h, n, section, name, value) ==
    IF ~h[section].magic
    THEN [retval |-> "PROF_MAGIC_NODE", heap |-> h, node |-> NULL]
    ELSE IF h[section].value # NULL
    THEN [retval |-> "PROF_ADD_NOT_SECTION", heap |-> h, node |-> NULL]
    ELSE LET pl == FindInsert(h, h[section].first_child, NULL, name)
             cr == profile_create_node(h, n, name, value)
         IN  IF cr.retval # "OK"
             THEN [retval |-> cr.retval, heap |-> h, node |-> NULL]
             ELSE [retval |-> "OK",
                   heap |-> LinkNode(cr.heap, section, cr.node, pl[1], pl[2]),
                   node |-> cr.node]

\* ----------------------------------------------------- profile_remove_node
\* The loop of lines 328-331: the first child named name that has a value.
RECURSIVE FindNamedRelation(_, _, _)
FindNamedRelation(h, p, name) ==
    IF p = NULL THEN NULL
    ELSE IF strcmp(h[p].name, name) = 0 /\ h[p].value # NULL THEN p
    ELSE FindNamedRelation(h, h[p].next, name)

\* Lines 346-353: unlink p from its siblings and free it.
UnlinkAndFree(h, section, p) ==
    LET h1 == IF h[p].prev # NULL
              THEN [h EXCEPT ![h[p].prev].next = h[p].next]
              ELSE [h EXCEPT ![section].first_child = h[p].next]
        h2 == IF h[p].next # NULL
              THEN [h1 EXCEPT ![h[p].next].prev = h[p].prev]
              ELSE h1
    IN  profile_free_node(h2, p)

\* A faulty deletion: the loop deletes every child named name, whatever its kind.
RECURSIVE DeleteRun_AnyKind(_, _, _, _, _)
DeleteRun_AnyKind(h, section, p, name, section_flag) ==
    IF p = NULL \/ strcmp(h[p].name, name) # 0 THEN h
    ELSE LET next == h[p].next
         IN  DeleteRun_AnyKind(
                 LET h1 == IF h[p].prev # NULL
                           THEN [h EXCEPT ![h[p].prev].next = h[p].next]
                           ELSE [h EXCEPT ![section].first_child = h[p].next]
                     h2 == IF h[p].next # NULL
                           THEN [h1 EXCEPT ![h[p].next].prev = h[p].prev]
                           ELSE h1
                 IN  profile_free_node(h2, p),
                 section, next, name, section_flag)

\* The loop of lines 337-355.
RECURSIVE DeleteRun(_, _, _, _, _)
DeleteRun(h, section, p, name, section_flag) ==
    IF p = NULL \/ strcmp(h[p].name, name) # 0 THEN h
    ELSE IF (section_flag /\ h[p].value # NULL)
            \/ (~section_flag /\ h[p].value = NULL)
    THEN DeleteRun(h, section, h[p].next, name, section_flag)
    ELSE LET next == h[p].next
         IN  DeleteRun(UnlinkAndFree(h, section, p), section, next, name,
                       section_flag)

profile_remove_node(h, section, name, section_flag) ==
    LET p == FindNamedRelation(h, h[section].first_child, name)
    IN  IF p = NULL
        THEN [retval |-> "PROF_NO_RELATION", heap |-> h]
        ELSE [retval |-> "OK",
              heap |-> DeleteRun(h, section, p, name, section_flag)]

\* ------------------------------------------------ profile_make_node_final
profile_make_node_final(h, node) ==
    IF ~h[node].magic THEN [retval |-> "PROF_MAGIC_NODE", heap |-> h]
    ELSE [retval |-> "OK", heap |-> [h EXCEPT ![node].final = TRUE]]

\* FirstMatch accepting a child of either kind.
RECURSIVE FirstMatch_AnyKind(_, _, _, _)
FirstMatch_AnyKind(h, p, name, has_value) ==
    IF p = NULL THEN NULL
    ELSE IF name = NULL \/ strcmp(h[p].name, name) = 0
    THEN p
    ELSE FirstMatch_AnyKind(h, h[p].next, name, has_value)

\* ------------- profile_find_node_relation and profile_find_node_subsection
\* The loops of lines 230-240 and 251-256 (has_value TRUE) and of lines
\* 286-296 and 307-312 (has_value FALSE): the first node from p on that the
\* name filter (NULL: any name) and the kind accept.
RECURSIVE FirstMatch(_, _, _, _)
FirstMatch(h, p, name, has_value) ==
    IF p = NULL THEN NULL
    ELSE IF (name = NULL \/ strcmp(h[p].name, name) = 0)
            /\ ((h[p].value # NULL) = has_value)
    THEN p
    ELSE FirstMatch(h, h[p].next, name, has_value)

\* A faulty scanner: the cursor is left on the sibling after the match.
FindNode_NoLookAhead(h, section, name, st, has_value, not_found) ==
    IF ~h[section].magic
    THEN [retval |-> "PROF_MAGIC_NODE", state |-> st, node |-> NULL]
    ELSE IF st # NULL /\ ~h[st].magic
    THEN [retval |-> "PROF_MAGIC_NODE", state |-> st, node |-> NULL]
    ELSE LET start == IF st # NULL THEN st ELSE h[section].first_child
             p == FirstMatch(h, start, name, has_value)
         IN  IF p = NULL
             THEN [retval |-> not_found, state |-> NULL, node |-> NULL]
             ELSE [retval |-> "OK", state |-> h[p].next, node |-> p]

\* Both scanners, which differ in the kind they accept and in the error of
\* an empty scan.  node is the child returned through value / subsection.
FindNode(h, section, name, st, has_value, not_found) ==
    IF ~h[section].magic
    THEN [retval |-> "PROF_MAGIC_NODE", state |-> st, node |-> NULL]
    ELSE IF st # NULL /\ ~h[st].magic
    THEN [retval |-> "PROF_MAGIC_NODE", state |-> st, node |-> NULL]
    ELSE LET start == IF st # NULL THEN st ELSE h[section].first_child
             p == FirstMatch(h, start, name, has_value)
         IN  IF p = NULL
             THEN [retval |-> not_found, state |-> NULL, node |-> NULL]
             ELSE [retval |-> "OK",
                   state |-> FirstMatch(h, h[p].next, name, has_value),
                   node |-> p]

profile_find_node_relation(h, section, name, st) ==
    FindNode(h, section, name, st, TRUE, "PROF_NO_RELATION")

profile_find_node_subsection(h, section, name, st) ==
    FindNode(h, section, name, st, FALSE, "PROF_NO_SECTION")

\* ------------------------------------------- profile_node_iterator_create
\* struct profile_iterator before it is created and after it is freed.
NoIterator ==
    [magic |-> FALSE, flags |-> {}, names |-> <<>>, name |-> NULL,
     file |-> NULL, file_serial |-> 0, done_idx |-> 0, node |-> NULL,
     num |-> 0]

\* A faulty list of files: no file has a next one.
NextFile_None(fs, file) == NULL

\* profile->first_file and file->next: the files are numbered in list order.
FirstFile(fs) == IF Len(fs) > 0 THEN 1 ELSE NULL
NextFile(fs, file) == IF file < Len(fs) THEN file + 1 ELSE NULL

\* names is the array up to its terminating null pointer.
profile_node_iterator_create(fs, names, flags) ==
    IF "PROFILE_ITER_LIST_SECTION" \notin flags /\ Len(names) = 0
    THEN [retval |-> "PROF_BAD_NAMESET", iter |-> NoIterator]
    ELSE [retval |-> "OK",
          iter |-> [magic |-> TRUE, flags |-> flags, names |-> names,
                    name |-> NULL, file |-> FirstFile(fs), file_serial |-> 0,
                    done_idx |-> IF "PROFILE_ITER_LIST_SECTION" \in flags
                                 THEN 0 ELSE 1,
                    node |-> NULL, num |-> 0]]

\* --------------------------------------------- profile_node_iterator_free
\* A faulty free: the caller's handle is left as it was.
profile_node_iterator_free_KeepHandle(handle, it) ==
    IF handle = NULL \/ ~it.magic THEN <<handle, it>>
    ELSE <<handle, NoIterator>>

\* A faulty free: nothing is freed.
profile_node_iterator_free_Nothing(handle, it) == <<handle, it>>

\* <<the handle, the iterator>> after profile_node_iterator_free(&handle).
profile_node_iterator_free(handle, it) ==
    IF handle = NULL \/ ~it.magic THEN <<handle, it>>
    ELSE <<NULL, NoIterator>>

\* -------------------------------------------------- profile_node_iterator
\* A faulty check: the cursor is kept whatever the serial of the file.
StaleCheck_KeepCursor(fs, it) == [iter |-> it, skip_num |-> 0]

\* Lines 456-464: the iterator and skip_num after the check of the file's
\* serial.
StaleCheck(fs, it) ==
    IF it.node # NULL /\ fs[it.file].upd_serial # it.file_serial
    THEN [iter |-> [it EXCEPT !.flags = @ \ {"PROFILE_ITER_FINAL_SEEN"},
                              !.node = NULL],
          skip_num |-> it.num]
    ELSE [iter |-> it, skip_num |-> 0]

\* The loop of lines 489-491: the first child from p on that is a section
\* named name.
RECURSIVE FindSectionNamed(_, _, _)
FindSectionNamed(h, p, name) ==
    IF p = NULL THEN NULL
    ELSE IF strcmp(h[p].name, name) = 0 /\ h[p].value = NULL THEN p
    ELSE FindSectionNamed(h, h[p].next, name)

\* ResolvePath that takes no note of a final section.
RECURSIVE ResolvePath_NoFinal(_, _, _, _, _, _)
ResolvePath_NoFinal(h, section, names, cpp, done_idx, flags) ==
    IF cpp + done_idx > Len(names)
    THEN [section |-> section, cpp |-> cpp, flags |-> flags]
    ELSE LET p == FindSectionNamed(h, h[section].first_child, names[cpp])
         IN  IF p = NULL
             THEN [section |-> NULL, cpp |-> cpp, flags |-> flags]
             ELSE ResolvePath_NoFinal(h, p, names, cpp + 1, done_idx, flags)

\* The loop of lines 488-499 from its cpp-th pass on (cpp counts from 1):
\* the section reached (NULL: a component did not resolve), cpp and the
\* flags when it ends.
RECURSIVE ResolvePath(_, _, _, _, _, _)
ResolvePath(h, section, names, cpp, done_idx, flags) ==
    IF cpp + done_idx > Len(names)
    THEN [section |-> section, cpp |-> cpp, flags |-> flags]
    ELSE LET p == FindSectionNamed(h, h[section].first_child, names[cpp])
         IN  IF p = NULL
             THEN [section |-> NULL, cpp |-> cpp, flags |-> flags]
             ELSE ResolvePath(h, p, names, cpp + 1, done_idx,
                              IF h[p].final
                              THEN flags \cup {"PROFILE_ITER_FINAL_SEEN"}
                              ELSE flags)

\* A faulty search: the kind of a child is not looked at.
RECURSIVE SearchFrom_AnyKind(_, _, _, _, _)
SearchFrom_AnyKind(h, p, name, flags, skip) ==
    IF p = NULL THEN [p |-> NULL, skip_num |-> skip]
    ELSE IF name # NULL /\ strcmp(h[p].name, name) # 0
    THEN SearchFrom_AnyKind(h, h[p].next, name, flags, skip)
    ELSE IF skip > 0
    THEN SearchFrom_AnyKind(h, h[p].next, name, flags, skip - 1)
    ELSE [p |-> p, skip_num |-> skip]

\* The loop of lines 512-526: p and skip_num when it ends.
RECURSIVE SearchFrom(_, _, _, _, _)
SearchFrom(h, p, name, flags, skip) ==
    IF p = NULL THEN [p |-> NULL, skip_num |-> skip]
    ELSE IF name # NULL /\ strcmp(h[p].name, name) # 0
    THEN SearchFrom(h, h[p].next, name, flags, skip)
    ELSE IF "PROFILE_ITER_SECTIONS_ONLY" \in flags /\ h[p].value # NULL
    THEN SearchFrom(h, h[p].next, name, flags, skip)
    ELSE IF "PROFILE_ITER_RELATIONS_ONLY" \in flags /\ h[p].value = NULL
    THEN SearchFrom(h, h[p].next, name, flags, skip)
    ELSE IF skip > 0
    THEN SearchFrom(h, h[p].next, name, flags, skip - 1)
    ELSE [p |-> p, skip_num |-> skip]

\* AfterSearch that leaves the cursor on the node found.
AfterSearch_StayOnNode(h, fs, it, p) ==
    IF p = NULL
    THEN [it EXCEPT !.num = it.num + 1, !.file = NextFile(fs, it.file),
                    !.node = NULL]
    ELSE [it EXCEPT !.num = it.num + 1, !.node = p]

\* Lines 527-535: the iterator after the search ended at p (p = NULL: the
\* section is used up).
AfterSearch(h, fs, it, p) ==
    IF p = NULL
    THEN [it EXCEPT !.num = it.num + 1, !.file = NextFile(fs, it.file),
                    !.node = NULL]
    ELSE [it EXCEPT !.num = it.num + 1, !.node = h[p].next,
                    !.file = IF h[p].next = NULL THEN NextFile(fs, it.file)
                             ELSE it.file]

\* ------------------------------------------------------------------ ghosts
Live(h) == {i \in DOMAIN h : h[i].magic}

\* The ghost record of a call that returned retval.
Called(op, retval, section, name, arg) ==
    IF retval = "OK"
    THEN [op |-> op, section |-> section, name |-> name, arg |-> arg]
    ELSE [op |-> op, section |-> NULL, name |-> NULL, arg |-> NULL]

\* ---------------------------------------------- the tree operations (Spec)
NoScan == [name |-> NULL, relation |-> TRUE]

ScanAtRest ==
    /\ scan = NoScan
    /\ state = NULL
    /\ seen = <<>>
    /\ dirty = FALSE
    /\ since = {}

IterAtRest ==
    /\ files = <<>>
    /\ iter_p = NULL
    /\ iter = NoIterator
    /\ pc = "idle"
    /\ skip_num = 0
    /\ ret_node = NULL
    /\ out = <<>>
    /\ resolved = {}
    /\ failed = FALSE
    /\ created = [names |-> <<>>, flags |-> {}]
    /\ freed = FALSE

\* An empty root section.
Init ==
    LET cr == profile_create_node([i \in NodeIds |-> Blank], 0, 1, NULL)
    IN  /\ heap = cr.heap
        /\ root = cr.node
        /\ nalloc = 1
        /\ call = Called("create", cr.retval, NULL, 1, NULL)
        /\ ret = cr.retval
        /\ ScanAtRest
        /\ IterAtRest

AddNode(section, name, value) ==
    LET r == profile_add_node(heap, nalloc, section, name, value)
    IN  /\ heap' = r.heap
        /\ nalloc' = IF r.node # NULL THEN r.node ELSE nalloc
        /\ call' = Called("add", r.retval, section, name, value)
        /\ ret' = r.retval
        /\ UNCHANGED root

RemoveNode(section, name, section_flag) ==
    LET r == profile_remove_node(heap, section, name, section_flag)
    IN  /\ heap' = r.heap
        /\ call' = Called("remove", r.retval, section, name, section_flag)
        /\ ret' = r.retval
        /\ UNCHANGED <<root, nalloc>>

\* The handles a caller can hold: the nodes created so far, destroyed ones
\* among them.  A destroyed node reads as the zeroed cell profile_free_node
\* left (magic 0); where its memory has been handed out again the handle is
\* the handle of the node that has it now, one of the live handles.
Handles == 1..nalloc

Next ==
    \/ \E section \in Handles, name \in Names, value \in Values :
          AddNode(section, name, value) /\ UNCHANGED <<scanVars, iterVars>>
    \/ \E section \in Handles, name \in Names, section_flag \in BOOLEAN :
          RemoveNode(section, name, section_flag)
              /\ UNCHANGED <<scanVars, iterVars>>

Spec == Init /\ [][Next]_vars

\* --------------------------------- the single-section scanners (ScanSpec)
\* The caller scans the children of the root, which add and remove calls
\* may change between two calls of a scanner.
Modified ==
    /\ dirty' = (dirty \/ heap' # heap)
    /\ seen' = IF heap' # heap THEN <<>> ELSE seen
    /\ since' = IF state = NULL \/ heap'[state].magic \/ heap[state].magic
                THEN {}
                ELSE (since \cap Live(heap'))
                         \cup (IF nalloc' # nalloc THEN {nalloc'} ELSE {})
    /\ UNCHANGED <<scan, state>>

ScanAdd(name, value) ==
    AddNode(root, name, value) /\ Modified /\ UNCHANGED iterVars

ScanRemove(name, section_flag) ==
    RemoveNode(root, name, section_flag) /\ Modified /\ UNCHANGED iterVars

\* The caller starts a scan: void *state = 0.
BeginScan(name, relation) ==
    /\ scan' = [name |-> name, relation |-> relation]
    /\ state' = NULL
    /\ seen' = <<>>
    /\ dirty' = FALSE
    /\ since' = {}
    /\ call' = Called("begin", "OK", root, name, relation)
    /\ ret' = "OK"
    /\ UNCHANGED <<treeVars, iterVars>>

Scanned(op, r) ==
    /\ state' = r.state
    /\ since' = IF r.retval = "PROF_MAGIC_NODE" THEN since ELSE {}
    /\ seen' = IF dirty THEN seen ELSE Append(seen, r.node)
    /\ call' = Called(op, r.retval, root, scan.name, r.node)
    /\ ret' = r.retval
    /\ UNCHANGED <<treeVars, scan, dirty, iterVars>>

\* What a scanner reads through the cursor.  The memory of a destroyed node
\* has been freed: it reads as the cell profile_free_node left (magic 0) or,
\* handed out again by malloc, as a node created since.
CursorReadAs ==
    IF state # NULL /\ ~heap[state].magic THEN {state} \cup since ELSE {state}

FindRelation ==
    /\ scan.relation
    /\ dirty \/ Len(seen) < MaxNodes
    /\ \E st \in CursorReadAs :
           Scanned("find_relation",
                   profile_find_node_relation(heap, root, scan.name, st))

FindSubsection ==
    /\ ~scan.relation
    /\ dirty \/ Len(seen) < MaxNodes
    /\ \E st \in CursorReadAs :
           Scanned("find_subsection",
                   profile_find_node_subsection(heap, root, scan.name, st))

ScanNext ==
    \/ \E name \in Names, value \in Values : ScanAdd(name, value)
    \/ \E name \in Names, section_flag \in BOOLEAN : ScanRemove(name, section_flag)
    \/ \E name \in Names \cup {NULL}, relation \in BOOLEAN : BeginScan(name, relation)
    \/ FindRelation
    \/ FindSubsection

ScanSpec == Init /\ [][ScanNext]_vars

\* ------------------------------------------- the node iterator (IterSpec)
\* Bounds of the profiles the iterator walks: the number of files, the
\* number of nodes below their roots (all files together) and the number of
\* reloads.
NumFiles == 2
MaxEntries == 4
MaxReloads == 1
FileIds == 1..NumFiles

\* A file's tree: its children of the root (depth 0) or a section of the
\* least name under the root, final or not, with its children (depth 1).
\* The children are given in the order they are added; names are added in
\* ascending order, any other order of the names builds the same lists.
KidKinds == [name : Names, value : Values]
KidSeqs == UNION {[1..k -> KidKinds] : k \in 0..MaxEntries}
SectionName == CHOOSE n \in Names : \A m \in Names : n <= m

Shapes ==
    {sh \in [depth : {0, 1}, final : BOOLEAN, kids : KidSeqs] :
        /\ sh.depth = 0 => ~sh.final
        /\ \A i \in 1..(Len(sh.kids) - 1) : sh.kids[i].name <= sh.kids[i + 1].name}

\* profile_add_node of kids[i], kids[i + 1], ... under section.
RECURSIVE AddKids(_, _, _, _, _)
AddKids(h, n, section, kids, i) ==
    IF i > Len(kids) THEN [heap |-> h, nalloc |-> n]
    ELSE LET r == profile_add_node(h, n, section, kids[i].name, kids[i].value)
         IN  AddKids(r.heap, r.node, section, kids, i + 1)

\* The tree of shape sh, built with the tree operations.
BuildTree(h, n, sh) ==
    LET cr == profile_create_node(h, n, SectionName, NULL)
    IN  IF sh.depth = 0
        THEN [root |-> cr.node] @@ AddKids(cr.heap, cr.node, cr.node, sh.kids, 1)
        ELSE LET sec == profile_add_node(cr.heap, cr.node, cr.node, SectionName,
                                         NULL)
                 h1 == IF sh.final
                       THEN profile_make_node_final(sec.heap, sec.node).heap
                       ELSE sec.heap
             IN  [root |-> cr.node] @@ AddKids(h1, sec.node, sec.node, sh.kids, 1)

\* The trees of shapes[f], shapes[f + 1], ..., one after the other.
RECURSIVE BuildFiles(_, _, _, _, _)
BuildFiles(h, n, shapes, f, fs) ==
    IF f > Len(shapes) THEN [heap |-> h, nalloc |-> n, files |-> fs]
    ELSE LET t == BuildTree(h, n, shapes[f])
         IN  BuildFiles(t.heap, t.nalloc, shapes, f + 1,
                        Append(fs, [root |-> t.root, upd_serial |-> 0]))

\* The name arrays and flags the iterator is created with.
IterNames ==
    {<<>>} \cup {<<n>> : n \in Names} \cup {<<SectionName, n>> : n \in Names}
IterFlags ==
    {{}, {"PROFILE_ITER_LIST_SECTION"}, {"PROFILE_ITER_SECTIONS_ONLY"},
     {"PROFILE_ITER_RELATIONS_ONLY"}}

\* The files are loaded and profile_node_iterator_create has returned the
\* iterator.
IterInit ==
    \E shapes \in [FileIds -> Shapes], names \in IterNames, flags \in IterFlags :
        LET cost == [f \in FileIds |-> shapes[f].depth + Len(shapes[f].kids)]
            total[f \in 0..NumFiles] == IF f = 0 THEN 0 ELSE total[f - 1] + cost[f]
            b == BuildFiles([i \in 1..(NumFiles + MaxEntries) |-> Blank], 0,
                            shapes, 1, <<>>)
            cr == profile_node_iterator_create(b.files, names, flags)
        IN  /\ total[NumFiles] <= MaxEntries
            /\ cr.retval = "OK"
            /\ heap = b.heap
            /\ nalloc = b.nalloc
            /\ root = b.files[1].root
            /\ files = b.files
            /\ iter_p = 1
            /\ iter = cr.iter
            /\ pc = "idle"
            /\ skip_num = 0
            /\ ret_node = NULL
            /\ out = <<>>
            /\ resolved = {}
            /\ failed = FALSE
            /\ created = [names |-> names, flags |-> flags]
            /\ freed = FALSE
            /\ call = Called("iterator_create", cr.retval, NULL, NULL, NULL)
            /\ ret = cr.retval
            /\ ScanAtRest

\* The call returns retval; the handle and the iterator are as given.
Return(retval, node, handle, it) ==
    /\ pc' = "idle"
    /\ skip_num' = 0
    /\ ret' = retval
    /\ ret_node' = node
    /\ iter_p' = handle
    /\ iter' = it

\* Lines 448-464: the call begins.
IterCall ==
    /\ pc = "idle"
    /\ call' = Called("iterator", "OK", NULL, NULL, NULL)
    /\ IF iter_p = NULL \/ ~iter.magic
       THEN /\ Return("PROF_MAGIC_ITERATOR", ret_node, iter_p, iter)
            /\ UNCHANGED <<files, out, resolved, failed, created, freed>>
       ELSE /\ iter' = StaleCheck(files, iter).iter
            /\ skip_num' = StaleCheck(files, iter).skip_num
            /\ pc' = "get_new_file"
            /\ UNCHANGED <<files, iter_p, ret, ret_node, out, resolved, failed,
                           created, freed>>
    /\ UNCHANGED <<treeVars, scanVars>>

\* Lines 466-477: the head of the loop and the end of the iteration.
IterGetNewFile ==
    /\ pc = "get_new_file"
    /\ IF iter.node # NULL
       THEN /\ pc' = "search"
            /\ UNCHANGED <<iter_p, iter, skip_num, ret, ret_node>>
       ELSE IF iter.file = NULL \/ "PROFILE_ITER_FINAL_SEEN" \in iter.flags
       THEN LET fr == profile_node_iterator_free(iter_p, iter)
            IN  Return("OK", NULL, fr[1], fr[2])
       ELSE /\ pc' = "update_file"
            /\ UNCHANGED <<iter_p, iter, skip_num, ret, ret_node>>
    /\ UNCHANGED <<treeVars, scanVars, call, files, out, resolved, failed,
                   created, freed>>

\* Lines 478-506: the body of the loop.  profile_update_file succeeds (ok) or
\* fails.
IterResolve(ok) ==
    /\ pc = "update_file"
    /\ IF ~ok
       THEN LET fr == profile_node_iterator_free(iter_p, iter)
            IN  /\ Return("EIO", ret_node, fr[1], fr[2])
                /\ failed' = TRUE
                /\ UNCHANGED <<resolved, created, freed>>
       ELSE LET r == ResolvePath(heap, files[iter.file].root, iter.names, 1,
                                 iter.done_idx, iter.flags)
                it == [iter EXCEPT
                         !.file_serial = files[iter.file].upd_serial,
                         !.flags = r.flags]
            IN  /\ IF r.section = NULL
                   THEN /\ iter' = [it EXCEPT !.file = NextFile(files, iter.file)]
                        /\ skip_num' = 0
                   ELSE /\ iter' = [it EXCEPT
                                      !.name = IF r.cpp <= Len(iter.names)
                                               THEN iter.names[r.cpp] ELSE NULL,
                                      !.node = heap[r.section].first_child]
                        /\ skip_num' = skip_num
                /\ pc' = "get_new_file"
                /\ resolved' = resolved \cup {iter.file}
                /\ UNCHANGED <<iter_p, ret, ret_node, failed, created, freed>>
    /\ UNCHANGED <<treeVars, scanVars, call, files, out>>

\* Lines 512-542: the search in the section and the return of the entry.
IterSearch ==
    /\ pc = "search"
    /\ LET r == SearchFrom(heap, iter.node, iter.name, iter.flags, skip_num)
           it == AfterSearch(heap, files, iter, r.p)
       IN  IF r.p = NULL
           THEN /\ iter' = it
                /\ skip_num' = 0
                /\ pc' = "get_new_file"
                /\ UNCHANGED <<iter_p, ret, ret_node, out>>
           ELSE /\ Return("OK", r.p, iter_p, it)
                /\ out' = Append(out, r.p)
    /\ UNCHANGED <<treeVars, scanVars, call, files, resolved, failed,
                   created, freed>>

\* Between two calls a file is loaded again, with the same contents.
Reload(f) ==
    /\ pc = "idle"
    /\ files[f].upd_serial < MaxReloads
    /\ \A g \in FileIds : g # f => files[g].upd_serial = 0
    /\ files' = [files EXCEPT ![f].upd_serial = @ + 1]
    /\ UNCHANGED <<treeVars, scanVars, call, ret, iter_p, iter, pc, skip_num,
                   ret_node, out, resolved, failed, created, freed>>

\* The caller calls profile_node_iterator_free between two calls.
IterFree ==
    /\ pc = "idle"
    /\ iter_p' = profile_node_iterator_free(iter_p, iter)[1]
    /\ iter' = profile_node_iterator_free(iter_p, iter)[2]
    /\ freed' = (freed \/ iter_p # NULL)
    /\ call' = Called("iterator_free", "OK", NULL, NULL, NULL)
    /\ UNCHANGED <<treeVars, scanVars, ret, files, pc, skip_num, ret_node, out,
                   resolved, failed, created>>

IterStep ==
    \/ IterGetNewFile
    \/ \E ok \in BOOLEAN : IterResolve(ok)
    \/ IterSearch

IterNext ==
    \/ IterCall
    \/ IterStep
    \/ \E f \in FileIds : Reload(f)

IterSpec == IterInit /\ [][IterNext]_vars

\* The traversals of files that are not loaded again, with a caller that may
\* free the iterator between two calls.
IterFreeNext ==
    \/ IterCall
    \/ IterStep
    \/ IterFree

IterFreeSpec == IterInit /\ [][IterFreeNext]_vars

\* A call runs to its end without being suspended, and the caller goes on
\* calling.
IterFairSpec == IterSpec /\ WF_vars(IterStep) /\ WF_vars(IterCall)

\* ------------------------------------------------- helpers of the properties
\* The elements of a sequence.
Range(sq) == {sq[i] : i \in 1..Len(sq)}

\* Position of x in a sequence without repetitions (0 when absent).
IndexOf(sq, x) ==
    IF x \in Range(sq) THEN CHOOSE i \in 1..Len(sq) : sq[i] = x ELSE 0

\* sq without its k-th element.
Without(sq, k) == [i \in 1..(Len(sq) - 1) |-> IF i < k THEN sq[i] ELSE sq[i + 1]]

IsSection(h, p) == h[p].value = NULL

\* p is node or lies below it (following parent).
RECURSIVE IsBelow(_, _, _)
IsBelow(h, p, node) ==
    IF p = NULL THEN FALSE
    ELSE IF p = node THEN TRUE
    ELSE IsBelow(h, h[p].parent, node)

\* C1: after every step of any sequence of add and remove calls,
\* profile_verify_node(root) returns success.
C1_VerifyRootSucceeds == profile_verify_node(heap, root) = "OK"

\* C1 witness: a remove has succeeded and left a tree two levels deep.
C1_Witness ==
    /\ call.op = "remove"
    /\ ret = "OK"
    /\ \E p \in Live(heap) : heap[p].group_level = 2

\* What C2 says of one successful profile_add_node(section, name, ...): the
\* old children keep their order, every child before the new node has a name
\* less than or equal to name and every child after it a greater one.
PlacedAfterLastLessOrEqual(h, h2, section, name, new) ==
    LET old == Children(h, section)
        now == Children(h2, section)
        k == IndexOf(now, new)
    IN  /\ new \notin Range(old)
        /\ k > 0
        /\ Without(now, k) = old
        /\ \A i \in 1..Len(now) :
              /\ i < k => strcmp(h2[now[i]].name, name) <= 0
              /\ i > k => strcmp(h2[now[i]].name, name) > 0

\* C2: profile_add_node places the new node after every existing child whose
\* name is less than or equal to the new name and immediately before the
\* first child whose name is greater, the existing children keeping their
\* order, so children of the same name stay in insertion order.
C2_AddAfterLastLessOrEqual ==
    [][(call'.op = "add" /\ ret' = "OK")
          => PlacedAfterLastLessOrEqual(heap, heap', call'.section, call'.name,
                                        nalloc')]_vars

\* C2 witness: names 2, 1, 2 were inserted under the root in that order
\* (cells are handed out in increasing order) and the children are 1, 2, 2
\* with the two nodes named 2 in insertion order.
C2_Witness ==
    /\ call.op = "add"
    /\ ret = "OK"
    /\ Len(Children(heap, root)) = 3
    /\ LET c == Children(heap, root)
       IN  /\ <<heap[c[1]].name, heap[c[2]].name, heap[c[3]].name>> = <<1, 2, 2>>
           /\ c[2] < c[1]
           /\ c[1] < c[3]

\* C3 (as stated): after profile_remove_node(section, name, wantSection)
\* returns success, section has no direct child named name of the requested
\* kind.
C3_RemoveLeavesNoMatch ==
    [][(call'.op = "remove" /\ ret' = "OK")
          => \A p \in Range(Children(heap', call'.section)) :
                ~(heap'[p].name = call'.name
                  /\ IsSection(heap', p) = call'.arg)]_vars

\* The children profile_remove_node(section, name, section_flag) must keep:
\* those of another name or of the other kind.
KeptChildren(h, section, name, section_flag) ==
    SelectSeq(Children(h, section),
              LAMBDA p : h[p].name # name \/ IsSection(h, p) # section_flag)

\* A node as its owner sees it: everything but its sibling links.
Content(nd) == [nd EXCEPT !.next = NULL, !.prev = NULL]

\* C4: profile_remove_node leaves unchanged, and in the same relative
\* order, every direct child of another name or of the other kind (with
\* everything below it).
C4_RemoveKeepsOthers ==
    [][call'.op = "remove"
          => IF ret' # "OK" THEN heap' = heap
             ELSE LET section == call'.section
                      kept == KeptChildren(heap, section, call'.name, call'.arg)
                  IN  /\ SelectSeq(Children(heap', section),
                                   LAMBDA p : p \in Range(kept)) = kept
                      /\ \A p \in Range(kept) :
                            /\ Content(heap'[p]) = Content(heap[p])
                            /\ \A q \in Live(heap) :
                                  (q # p /\ IsBelow(heap, q, p))
                                      => heap'[q] = heap[q]]_vars

\* C4 witness: relations named n have just been removed from the root and a
\* subsection named n is still a child of the root.
C4_Witness ==
    /\ call.op = "remove"
    /\ call.section = root
    /\ call.arg = FALSE
    /\ ret = "OK"
    /\ \E p \in Range(Children(heap, root)) :
          heap[p].name = call.name /\ IsSection(heap, p)
    /\ nalloc > Cardinality(Live(heap))

\* C5 (as stated): profile_remove_node returns PROF_NO_RELATION exactly
\* when section has no direct child named name, of either kind, and then
\* it changes nothing.
C5_NotFoundIffNoChildOfName ==
    [][\A section \in Live(heap), name \in Names, section_flag \in BOOLEAN :
          RemoveNode(section, name, section_flag)
              => /\ (ret' = "PROF_NO_RELATION")
                      <=> (\A p \in Range(Children(heap, section)) : heap[p].name # name)
                 /\ (ret' = "PROF_NO_RELATION" => heap' = heap)]_vars

\* The children of section a scan for name accepts, in sibling order.
Matches(h, section, name, has_value) ==
    SelectSeq(Children(h, section),
              LAMBDA p : /\ name = NULL \/ h[p].name = name
                         /\ (h[p].value # NULL) = has_value)

\* C6 as stated: on repeated calls of profile_find_node_relation on an
\* unmodified section, each passing back the cursor of the call before, the
\* i-th call yields the i-th matching relation and every call after the last
\* match returns PROF_NO_RELATION and yields nothing.
C6_ScanEndsWithNotFound ==
    (scan.relation /\ ~dirty) =>
        LET m == Matches(heap, root, scan.name, TRUE)
        IN  \A i \in 1..Len(seen) :
                seen[i] = IF i <= Len(m) THEN m[i] ELSE NULL

\* C6, amended: on repeated calls of profile_find_node_relation on an
\* unmodified section, each passing back the cursor of the call before, the
\* calls yield the matching relations in sibling order, each once, and the
\* cursor is the next matching relation, null with the last one; a call with
\* the null cursor starts over at the first match, and PROF_NO_RELATION is
\* returned exactly when the section has no matching relation.
C6_ScanYieldsMatchesUntilNullCursor ==
    (scan.relation /\ ~dirty) =>
        LET m == Matches(heap, root, scan.name, TRUE)
            n == Len(m)
            at(i) == ((i - 1) % n) + 1
        IN  /\ \A i \in 1..Len(seen) :
                   seen[i] = IF n = 0 THEN NULL ELSE m[at(i)]
            /\ state = IF seen = <<>> \/ n = 0 \/ at(Len(seen)) = n
                       THEN NULL ELSE m[at(Len(seen)) + 1]
            /\ call.op = "find_relation" =>
                   ret = IF n = 0 THEN "PROF_NO_RELATION" ELSE "OK"

\* Two relations of the name with a subsection of the name between them have
\* been yielded, and the call after them has been made.
C6_Witness ==
    /\ scan.relation /\ ~dirty /\ scan.name # NULL
    /\ call.op = "find_relation"
    /\ Len(seen) = 3
    /\ LET c == Children(heap, root)
           m == Matches(heap, root, scan.name, TRUE)
       IN  /\ Len(m) = 2
           /\ Len(c) = 3
           /\ \E k \in 1..Len(c) :
                  /\ heap[c[k]].name = scan.name /\ IsSection(heap, c[k])
                  /\ IndexOf(c, m[1]) < k /\ k < IndexOf(c, m[2])

\* ------------------------------------------- what a traversal is to yield
\* The section names the iterator resolves and the name it searches for
\* (NULL: any), from the names and flags it was created with.
PathOf(cr) ==
    IF "PROFILE_ITER_LIST_SECTION" \in cr.flags THEN cr.names
    ELSE SubSeq(cr.names, 1, Len(cr.names) - 1)

TargetOf(cr) ==
    IF "PROFILE_ITER_LIST_SECTION" \in cr.flags THEN NULL
    ELSE cr.names[Len(cr.names)]

\* The sections met when walking path from its i-th name on below section,
\* ending with NULL where a name is no subsection.
RECURSIVE Trail(_, _, _, _)
Trail(h, section, path, i) ==
    IF i > Len(path) THEN <<>>
    ELSE LET c == SelectSeq(Children(h, section),
                            LAMBDA p : h[p].name = path[i] /\ IsSection(h, p))
         IN  IF c = <<>> THEN <<NULL>>
             ELSE <<c[1]>> \o Trail(h, c[1], path, i + 1)

TrailIn(f) == Trail(heap, files[f].root, PathOf(created), 1)

\* The section the path leads to in file f (NULL: none).
SectionIn(f) ==
    IF TrailIn(f) = <<>> THEN files[f].root ELSE TrailIn(f)[Len(TrailIn(f))]

\* The walk in file f passes a section marked final.
TraversesFinal(f) ==
    \E i \in 1..Len(TrailIn(f)) : TrailIn(f)[i] # NULL /\ heap[TrailIn(f)[i]].final

\* The entries of file f the iterator is asked for, in sibling order.
Entries(f) ==
    IF SectionIn(f) = NULL THEN <<>>
    ELSE SelectSeq(Children(heap, SectionIn(f)),
             LAMBDA p :
                 /\ TargetOf(created) = NULL \/ heap[p].name = TargetOf(created)
                 /\ "PROFILE_ITER_SECTIONS_ONLY" \in created.flags
                        => IsSection(heap, p)
                 /\ "PROFILE_ITER_RELATIONS_ONLY" \in created.flags
                        => ~IsSection(heap, p))

\* The files consulted: those up to the first whose walk passes a final
\* section.
Consulted == {f \in FileIds : \A g \in 1..(f - 1) : ~TraversesFinal(g)}

\* The entries of the consulted files from file f on, file after file.
RECURSIVE EntriesFrom(_)
EntriesFrom(f) ==
    IF f \notin Consulted THEN <<>> ELSE Entries(f) \o EntriesFrom(f + 1)

Expected == EntriesFrom(1)

IsPrefix(a, b) == Len(a) <= Len(b) /\ SubSeq(b, 1, Len(a)) = a
NoReload == \A f \in FileIds : files[f].upd_serial = 0
\* The end sentinel has been returned.
Ended == iter_p = NULL /\ ~failed /\ ~freed
\* The file whose tree holds node p.
FileOf(p) == CHOOSE f \in FileIds : IsBelow(heap, p, files[f].root)

\* C7: with no reload, the entries yielded so far are the first of the
\* qualifying entries of the consulted files, taken file after file and in
\* sibling order within a file, none twice; when the end sentinel is
\* returned they are all of them.
C7_YieldsInOrderOnce ==
    NoReload =>
        /\ IsPrefix(out, Expected)
        /\ \A i, j \in 1..Len(out) : out[i] = out[j] => i = j
        /\ Ended => out = Expected

\* Both files have given qualifying entries, the first two of them with a
\* sibling that does not qualify between them, and the end sentinel has been
\* returned.
C7_Witness ==
    /\ NoReload /\ Ended /\ call.op = "iterator"
    /\ Len(Entries(1)) >= 2 /\ Len(Entries(2)) >= 1
    /\ Len(out) = Len(Entries(1)) + Len(Entries(2))
    /\ heap[out[1]].next # out[2]

\* C8: once the walk in a file has passed a final section, the path is
\* resolved in no later file and no entry of a later file is yielded; when
\* the end sentinel is returned with no reload, the entries of that file
\* are the last ones yielded.
C8_FinalSuppressesLaterFiles ==
    \A f \in resolved :
        TraversesFinal(f) =>
            /\ \A g \in resolved : g <= f
            /\ \A i \in 1..Len(out) : FileOf(out[i]) <= f
            /\ (Ended /\ NoReload) =>
                   SubSeq(out, Len(out) - Len(Entries(f)) + 1, Len(out))
                       = Entries(f)

\* The first file has a final section with an entry, the second file has
\* the section with an entry too, and the traversal has ended with the one
\* entry of the first file.
C8_Witness ==
    /\ Ended /\ call.op = "iterator"
    /\ TraversesFinal(1)
    /\ Entries(1) # <<>> /\ Entries(2) # <<>>
    /\ out = Entries(1)
    /\ resolved = {1}

\* C9 as stated: whichever file was reloaded with the same tree between two
\* calls, when the end sentinel is returned the entries yielded are those a
\* traversal with no reload yields.
C9_ReloadYieldsSameSequence ==
    Ended => out = Expected

\* C10 as stated: every call of profile_node_iterator returns.
C10_EveryCallReturns ==
    (pc # "idle") ~> (pc = "idle")

\* C12: profile_add_node on a node that has a value returns
\* PROF_ADD_NOT_SECTION, creates no node and leaves the tree as it was, and
\* no node that has a value has a child.
C12_AddToRelationRejected ==
    [][call'.op = "add" =>
          /\ \A section \in Live(heap), name \in Names, value \in Values :
                 (heap[section].value # NULL /\ AddNode(section, name, value))
                     => /\ ret' = "PROF_ADD_NOT_SECTION"
                        /\ heap' = heap
                        /\ nalloc' = nalloc
          /\ \A p \in Live(heap') :
                 heap'[p].value # NULL => heap'[p].first_child = NULL]_vars

\* profile_add_node on a relation has returned PROF_ADD_NOT_SECTION while
\* the allocator had a cell left.
C12_Witness ==
    /\ call.op = "add" /\ ret = "PROF_ADD_NOT_SECTION"
    /\ nalloc < MaxNodes
    /\ \E p \in Live(heap) : heap[p].value # NULL /\ heap[p].parent = root

\* C17 as stated: profile_add_node and profile_remove_node called with the
\* handle of a destroyed node return PROF_MAGIC_NODE and leave the tree as
\* it was.
C17_DestroyedHandleRejected ==
    [][\A section \in Handles, name \in Names :
          (/\ ~heap[section].magic
           /\ \/ \E value \in Values : AddNode(section, name, value)
              \/ \E section_flag \in BOOLEAN :
                     RemoveNode(section, name, section_flag))
              => (ret' = "PROF_MAGIC_NODE" /\ heap' = heap)]_vars

\* C18: the children of every section are in non-decreasing order of name.
C18_ChildrenSortedByName ==
    \A section \in Live(heap) :
        LET c == Children(heap, section)
        IN  \A i, j \in 1..Len(c) :
                i < j => heap[c[i]].name <= heap[c[j]].name

\* After a removal, a child of the lesser name was added to a section that
\* had a child of the greater name.
C18_Witness ==
    /\ call.op = "add" /\ ret = "OK"
    /\ nalloc > Cardinality(Live(heap))
    /\ LET c == Children(heap, root)
       IN  /\ Len(c) = 2
           /\ heap[c[1]].name < heap[c[2]].name
           /\ c[2] < c[1]

\* The children of section from p on (all of them for p = NULL) a scan for
\* name accepts.
MatchesFrom(h, section, p, name, has_value) ==
    LET c == Children(h, section)
        from == IF p = NULL THEN 1 ELSE IndexOf(c, p)
    IN  SelectSeq(SubSeq(c, from, Len(c)),
                  LAMBDA q : /\ name = NULL \/ h[q].name = name
                             /\ (h[q].value # NULL) = has_value)

\* C15: a call of profile_find_node_relation or profile_find_node_subsection
\* with a null cursor or a cursor on a child of the section returns the
\* first child from the cursor on that matches the name filter and the kind,
\* and leaves the cursor on the next matching child after it, null if there
\* is none; with no match it clears the cursor and returns PROF_NO_RELATION
\* or PROF_NO_SECTION.
C15_CursorIsNextMatch ==
    [][(/\ call'.op \in {"find_relation", "find_subsection"}
        /\ state = NULL \/ heap[state].magic)
          => LET rest == MatchesFrom(heap, root, state, scan.name, scan.relation)
             IN  IF rest = <<>>
                 THEN /\ ret' = IF scan.relation THEN "PROF_NO_RELATION"
                                ELSE "PROF_NO_SECTION"
                      /\ state' = NULL
                 ELSE /\ ret' = "OK"
                      /\ call'.arg = rest[1]
                      /\ state' = IF Len(rest) > 1 THEN rest[2] ELSE NULL]_vars

\* A subsection was returned with the cursor on the next subsection of the
\* name, a relation of the name lying between the two.
C15_Witness ==
    /\ call.op = "find_subsection" /\ ret = "OK"
    /\ scan.name # NULL
    /\ state # NULL
    /\ heap[call.arg].next # state
    /\ heap[heap[call.arg].next].name = scan.name

\* C19 as stated: a call of profile_find_node_relation or
\* profile_find_node_subsection with a cursor whose node profile_remove_node
\* has destroyed returns PROF_MAGIC_NODE.
C19_RemovedCursorRejected ==
    [][(/\ call'.op \in {"find_relation", "find_subsection"}
        /\ state # NULL /\ ~heap[state].magic)
          => ret' = "PROF_MAGIC_NODE"]_vars

\* C11: the call that finds the files used up returns success with a null
\* node, frees the iterator and clears the caller's handle; a call with a
\* cleared handle returns PROF_MAGIC_ITERATOR, runs no further and yields
\* nothing; profile_node_iterator_free with a cleared handle changes
\* nothing.
C11_ExhaustedIteratorIsGone ==
    [][/\ (IterGetNewFile /\ pc' = "idle")
           => /\ ret' = "OK" /\ ret_node' = NULL
              /\ iter_p' = NULL /\ iter' = NoIterator
       /\ (IterCall /\ iter_p = NULL)
           => /\ ret' = "PROF_MAGIC_ITERATOR"
              /\ pc' = "idle"
              /\ UNCHANGED <<iter_p, iter, out, resolved, heap, files>>
       /\ (IterFree /\ iter_p = NULL)
           => UNCHANGED <<iter_p, iter, ret, out, resolved, heap, files>>]_vars

\* After the end sentinel a further call has returned PROF_MAGIC_ITERATOR
\* and the caller has then called profile_node_iterator_free.
C11_Witness ==
    /\ Ended /\ out # <<>>
    /\ call.op = "iterator_free"
    /\ ret = "PROF_MAGIC_ITERATOR"

\* C13: a call that finds the serial of the current file changed while the
\* cursor is set discards the cursor, keeps the file and clears
\* PROFILE_ITER_FINAL_SEEN, so that the path is resolved again in that file;
\* the search never starts from a cursor set under another serial than the
\* file has.
C13_StaleCursorDiscarded ==
    [][/\ (/\ IterCall /\ iter_p # NULL
           /\ iter.node # NULL
           /\ files[iter.file].upd_serial # iter.file_serial)
           => /\ pc' = "get_new_file"
              /\ iter'.node = NULL
              /\ iter'.file = iter.file
              /\ "PROFILE_ITER_FINAL_SEEN" \notin iter'.flags
       /\ pc' = "search"
           => /\ iter'.file_serial = files'[iter'.file].upd_serial
              /\ IsBelow(heap', iter'.node, files'[iter'.file].root)]_vars

\* The file was loaded again while the cursor was set, and the next call has
\* resolved the path in it again and is about to skip what it yielded.
C13_Witness ==
    /\ pc = "search"
    /\ skip_num > 0
    /\ out # <<>>
    /\ files[iter.file].upd_serial > 0
    /\ iter.file_serial = files[iter.file].upd_serial

\* The path did not resolve in file f, which has a next file, and the call
\* that found this has returned.
FailedIn(f) ==
    /\ f \in resolved /\ f < NumFiles
    /\ SectionIn(f) = NULL
    /\ pc = "idle" /\ ~failed

\* C14 as stated: when the path does not resolve in a file, it is resolved
\* in the next file.
C14_FailedPathGoesToNextFile ==
    \A f \in FileIds : FailedIn(f) => (f + 1) \in resolved

\* C14, amended: when the path does not resolve in a file, it is resolved in
\* the next file, whose entries are yielded, unless the walk in the failing
\* file has passed a final section: then no later file is consulted.
C14_FailedPathGoesOnUnlessFinal ==
    \A f \in FileIds :
        FailedIn(f) =>
            /\ (f + 1) \in resolved <=> ~TraversesFinal(f)
            /\ (Ended /\ NoReload /\ ~TraversesFinal(f)) =>
                   \A p \in Range(Entries(f + 1)) : p \in Range(out)

\* The path did not resolve in the first file, which has children, and the
\* entries of the second file have been yielded.
C14_Witness ==
    /\ FailedIn(1) /\ Ended
    /\ Children(heap, files[1].root) # <<>>
    /\ Len(Entries(2)) >= 2
    /\ out = Entries(2)

\* C16: every node yielded is one of the children of the section the path
\* leads to in its file that have the name asked for (any name in list
\* mode) and the kind the flags ask for.
C16_YieldedEntriesQualify ==
    \A i \in 1..Len(out) :
        LET p == out[i]
        IN  /\ SectionIn(FileOf(p)) # NULL
            /\ heap[p].parent = SectionIn(FileOf(p))
            /\ "PROFILE_ITER_LIST_SECTION" \notin created.flags
                   => heap[p].name = created.names[Len(created.names)]
            /\ "PROFILE_ITER_SECTIONS_ONLY" \in created.flags
                   => heap[p].value = NULL
            /\ "PROFILE_ITER_RELATIONS_ONLY" \in created.flags
                   => heap[p].value # NULL

\* With sections only asked for, a section was yielded that comes after a
\* relation of the same name in a section below the root.
C16_Witness ==
    /\ out # <<>>
    /\ "PROFILE_ITER_SECTIONS_ONLY" \in created.flags
    /\ Len(created.names) = 2
    /\ LET p == out[1]
       IN  /\ heap[p].prev # NULL
           /\ heap[heap[p].prev].name = heap[p].name
           /\ heap[heap[p].prev].value # NULL

\* C20: the step in which profile_update_file fails frees the iterator,
\* clears the caller's handle and returns the error, yielding nothing; after
\* it no file is resolved and nothing is yielded, and every call returns
\* PROF_MAGIC_ITERATOR.
C20_UpdateFailureFreesIterator ==
    [][/\ (failed' /\ ~failed)
           => /\ pc' = "idle"
              /\ ret' \notin {"OK", "PROF_MAGIC_ITERATOR"}
              /\ iter_p' = NULL /\ iter' = NoIterator
              /\ UNCHANGED <<out, resolved, ret_node>>
       /\ failed
           => /\ UNCHANGED <<out, resolved, iter_p, iter, failed>>
              /\ pc' = "idle"
              /\ IterCall => ret' = "PROF_MAGIC_ITERATOR"]_vars

\* profile_update_file failed for the second file after entries of the
\* first were yielded, and a further call was made.
C20_Witness ==
    /\ failed
    /\ ret = "PROF_MAGIC_ITERATOR"
    /\ out # <<>>
    /\ resolved = {1}

====
